---- MODULE Spec2Model ----
(***************************************************************************)
(* A model of the filter-band engine of MeadowlarkDAW/audio-filters:       *)
(* the coefficient constructors of src/src/filter_band.rs, the first- and  *)
(* second-order SVF stages of src/src/first_order_iir.rs and               *)
(* src/src/second_order_iir.rs, the scalar and wide FilterBand             *)
(* (from / update / process), the Linkwitz-Riley bands of                  *)
(* src/src/linkwitz_riley.rs and the StereoFilterBand of                   *)
(* src/src/stereo_filter_band.rs.                                          *)
(*                                                                         *)
(* Numbers.  The source is generic over T: FP (f32, f64) and over the wide *)
(* lane types f64x4 and f32x8.  A value of T is modelled as a binary       *)
(* fixed-point number: the integer v stands for v / ONE.  Addition and     *)
(* subtraction are exact, multiplication and division round toward zero,   *)
(* so that, as with floats, x / n * n need not be x.  The elementary       *)
(* functions (tan, powf, sqrt, sinh, cos) are computed by short series in  *)
(* the same arithmetic.  A wide value is a tuple of lanes; the scalar band *)
(* is the one-lane case.                                                   *)
(***************************************************************************)
EXTENDS Integers, Sequences, FiniteSets, TLC

\* ------------------------------------------------------------------------
\* Fixed-point arithmetic standing for T: FP
\* ------------------------------------------------------------------------

\* Resolution of the arithmetic: the integer ONE stands for 1.0.
ONE == 256

Abs(v) == IF v < 0 THEN -v ELSE v

Sgn(v) == IF v < 0 THEN -1 ELSE 1

\* Integer quotient rounded toward zero (d # 0).
Quot(n, d) == Sgn(n) * Sgn(d) * (Abs(n) \div Abs(d))

Num(n) == n * ONE

Mul(x, y) == Quot(x * y, ONE)

Div(x, y) == Quot(x * ONE, y)

Min(x, y) == IF x < y THEN x ELSE y

N0_5 == ONE \div 2

N2 == 2 * ONE

PI == Quot(355 * ONE, 113)

LN_2 == Quot(693 * ONE, 1000)

LN_10 == Quot(2303 * ONE, 1000)

FRAC_1_SQRT_2 == Quot(7071 * ONE, 10000)

\* e^x by its Taylor polynomial of degree 6 (Horner form).
Exp(x) ==
    LET t6 == ONE + Quot(x, 6)
        t5 == ONE + Quot(Mul(x, t6), 5)
        t4 == ONE + Quot(Mul(x, t5), 4)
        t3 == ONE + Quot(Mul(x, t4), 3)
        t2 == ONE + Quot(Mul(x, t3), 2)
    IN  ONE + Mul(x, t2)

powf10(y) == Exp(Mul(LN_10, y))

sinh(x) == Quot(Exp(x) - Exp(-x), 2)

\* cos x by its Taylor polynomial of degree 6, for 0 <= x <= pi/2.
cos(x) ==
    LET x2 == Mul(x, x)
        t3 == ONE - Quot(x2, 30)
        t2 == ONE - Quot(Mul(x2, t3), 12)
    IN  ONE - Quot(Mul(x2, t2), 2)

\* tan x by the Pade approximant x (15 - x^2) / (15 - 6 x^2), for
\* 0 <= x <= pi/2; like the float tan it is large but finite at pi/2.
tan(x) ==
    LET x2 == Mul(x, x)
    IN  Div(Mul(x, Num(15) - x2), Num(15) - 6 * x2)

RECURSIVE ISqrt(_, _, _)
\* The largest r with r * r <= n, by bisection of lo <= r < hi.
ISqrt(n, lo, hi) ==
    IF hi - lo <= 1
    THEN lo
    ELSE LET mid == (lo + hi) \div 2
         IN  IF mid * mid <= n THEN ISqrt(n, mid, hi) ELSE ISqrt(n, lo, mid)

sqrt(v) == ISqrt(v * ONE, 0, v + ONE + 1)

\* ------------------------------------------------------------------------
\* Program constants
\* ------------------------------------------------------------------------

MAX_POLE_COUNT == 32

\* Lanes of f64x4 and f32x8; a scalar T is carried as one lane.
LanesF64 == 4

LanesF32 == 8

\* u8 wraps modulo 2^8 (`u_slope as u8`).
U8 == 256

StageIdx == 0 .. (MAX_POLE_COUNT - 1)

ProcessType ==
    {"ProcessIIR1Only", "ProcessIIR2Only",
     "ProcessEvenOrderCascade", "ProcessOddOrderCascade"}

\* ------------------------------------------------------------------------
\* First-order coefficients (first_order_iir.rs)
\* ------------------------------------------------------------------------

IIR1Coefficients_empty ==
    [a |-> 0, g |-> 0, a1 |-> 0, m0 |-> 0, m1 |-> 0, fs |-> 0]

\* TanOfCutoff without the clamp to half the sample rate.
TanOfCutoff_unclamped(f0, fs) == tan(Div(Mul(PI, f0), fs))

\* let f0 = f0.min(fs * 0.5); (T::PI() * f0 / fs).tan()
TanOfCutoff(f0, fs) == tan(Div(Mul(PI, Min(f0, Mul(fs, N0_5))), fs))

IIR1Coefficients_lowpass(f0, fs) ==
    LET g == TanOfCutoff(f0, fs)
    IN  [a |-> ONE, g |-> g, a1 |-> Div(g, ONE + g),
         m0 |-> 0, m1 |-> ONE, fs |-> fs]

\* IIR1Coefficients_highpass with a1 = g / (2 + g).
IIR1Coefficients_highpass_a1_two_plus_g(f0, fs) ==
    LET g == TanOfCutoff(f0, fs)
    IN  [a |-> ONE, g |-> g, a1 |-> Div(g, N2 + g),
         m0 |-> ONE, m1 |-> -ONE, fs |-> fs]

IIR1Coefficients_highpass(f0, fs) ==
    LET g == TanOfCutoff(f0, fs)
    IN  [a |-> ONE, g |-> g, a1 |-> Div(g, ONE + g),
         m0 |-> ONE, m1 |-> -ONE, fs |-> fs]

IIR1Coefficients_allpass(f0, fs) ==
    LET g == TanOfCutoff(f0, fs)
    IN  [a |-> ONE, g |-> g, a1 |-> Div(g, ONE + g),
         m0 |-> ONE, m1 |-> -N2, fs |-> fs]

IIR1Coefficients_lowshelf(f0, db_gain, fs) ==
    LET a == powf10(Div(db_gain, Num(20)))
        g == Div(TanOfCutoff(f0, fs), sqrt(a))
    IN  [a |-> a, g |-> g, a1 |-> Div(g, ONE + g),
         m0 |-> ONE, m1 |-> a - ONE, fs |-> fs]

IIR1Coefficients_highshelf(f0, db_gain, fs) ==
    LET a == powf10(Div(db_gain, Num(20)))
        g == Mul(TanOfCutoff(f0, fs), sqrt(a))
    IN  [a |-> a, g |-> g, a1 |-> Div(g, ONE + g),
         m0 |-> a, m1 |-> ONE - a, fs |-> fs]

\* ------------------------------------------------------------------------
\* Second-order coefficients (second_order_iir.rs)
\* ------------------------------------------------------------------------

IIR2Coefficients_empty ==
    [a |-> 0, g |-> 0, gpow2 |-> 0, k |-> 0, a1 |-> 0, a2 |-> 0, a3 |-> 0,
     m0 |-> 0, m1 |-> 0, m2 |-> 0, fs |-> 0]

\* The part every constructor shares: a1, a2, a3 and the record itself.
IIR2Record(a, g, k, m0, m1, m2, fs) ==
    LET a1 == Div(ONE, ONE + Mul(g, g + k))
        a2 == Mul(g, a1)
        a3 == Mul(g, a2)
    IN  [a |-> a, g |-> g, gpow2 |-> Mul(g, g), k |-> k,
         a1 |-> a1, a2 |-> a2, a3 |-> a3,
         m0 |-> m0, m1 |-> m1, m2 |-> m2, fs |-> fs]

IIR2Coefficients_lowpass(f0, q_value, db_gain, fs) ==
    IIR2Record(ONE, TanOfCutoff(f0, fs), Div(ONE, q_value), 0, 0, ONE, fs)

\* IIR2Coefficients_highpass with m1 = k.
IIR2Coefficients_highpass_m1_positive(f0, q_value, db_gain, fs) ==
    LET k == Div(ONE, q_value)
    IN  IIR2Record(ONE, TanOfCutoff(f0, fs), k, ONE, k, -ONE, fs)

IIR2Coefficients_highpass(f0, q_value, db_gain, fs) ==
    LET k == Div(ONE, q_value)
    IN  IIR2Record(ONE, TanOfCutoff(f0, fs), k, ONE, -k, -ONE, fs)

IIR2Coefficients_bandpass(f0, q_value, db_gain, fs) ==
    IIR2Record(ONE, TanOfCutoff(f0, fs), Div(ONE, q_value), 0, ONE, 0, fs)

\* IIR2Coefficients_notch that takes `a` from db_gain as the bell does.
IIR2Coefficients_notch_gain_used(f0, q_value, db_gain, fs) ==
    LET k == Div(ONE, q_value)
    IN  IIR2Record(powf10(Div(db_gain, Num(40))), TanOfCutoff(f0, fs), k,
                   ONE, -k, 0, fs)

IIR2Coefficients_notch(f0, q_value, db_gain, fs) ==
    LET k == Div(ONE, q_value)
    IN  IIR2Record(ONE, TanOfCutoff(f0, fs), k, ONE, -k, 0, fs)

IIR2Coefficients_allpass(f0, q_value, db_gain, fs) ==
    LET k == Div(ONE, q_value)
    IN  IIR2Record(ONE, TanOfCutoff(f0, fs), k, ONE, Mul(-N2, k), 0, fs)

IIR2Coefficients_lowshelf(f0, q_value, db_gain, fs) ==
    LET a == powf10(Div(db_gain, Num(40)))
        g == Div(TanOfCutoff(f0, fs), sqrt(a))
        k == Div(ONE, q_value)
    IN  IIR2Record(a, g, k, ONE, Mul(k, a - ONE), Mul(a, a) - ONE, fs)

IIR2Coefficients_highshelf(f0, q_value, db_gain, fs) ==
    LET a == powf10(Div(db_gain, Num(40)))
        g == Mul(TanOfCutoff(f0, fs), sqrt(a))
        k == Div(ONE, q_value)
    IN  IIR2Record(a, g, k, Mul(a, a), Mul(Mul(k, ONE - a), a),
                   ONE - Mul(a, a), fs)

IIR2Coefficients_bell(f0, q_value, db_gain, fs) ==
    LET a == powf10(Div(db_gain, Num(40)))
        k == Div(ONE, Mul(q_value, a))
    IN  IIR2Record(a, TanOfCutoff(f0, fs), k, ONE,
                   Mul(k, Mul(a, a) - ONE), 0, fs)

\* ------------------------------------------------------------------------
\* Units (units.rs)
\* ------------------------------------------------------------------------

\* T::N1 / (two * (T::LN_2() / two * self).sinh())
bw_to_q(bw, f0, fs) == Div(ONE, Mul(N2, sinh(Mul(Div(LN_2, N2), bw))))

\* butterworth_cascade_q without the step pole = pole - 1 of an odd order.
butterworth_cascade_q_pole_kept(filter_order, pole) ==
    LET pole_inc == Div(PI, Num(filter_order))
        even_order == filter_order % 2 = 0
        first_angle == IF even_order THEN Mul(pole_inc, N0_5) ELSE pole_inc
        a == first_angle + Mul(Num(pole), pole_inc)
    IN  IF ~even_order /\ pole = 0 THEN N0_5 ELSE Div(ONE, Mul(N2, cos(a)))

butterworth_cascade_q(filter_order, pole) ==
    LET pole_inc == Div(PI, Num(filter_order))
        even_order == filter_order % 2 = 0
        first_angle == IF even_order THEN Mul(pole_inc, N0_5) ELSE pole_inc
        fpole == IF even_order THEN Num(pole) ELSE Num(pole - 1)
        a == first_angle + Mul(fpole, pole_inc)
    IN  IF ~even_order /\ pole = 0
        THEN N0_5
        ELSE Div(ONE, Mul(N2, cos(a)))

\* ------------------------------------------------------------------------
\* FilterBandCoefficients (filter_band.rs)
\* ------------------------------------------------------------------------

\* iir1_func: fn(T, T, T) -> IIR1Coefficients<T>, named by the band kind.
\* lowpass, highpass and allpass take no gain.
iir1_func(func, f0, gain, fs) ==
    CASE func = "lowpass"   -> IIR1Coefficients_lowpass(f0, fs)
      [] func = "highpass"  -> IIR1Coefficients_highpass(f0, fs)
      [] func = "allpass"   -> IIR1Coefficients_allpass(f0, fs)
      [] func = "lowshelf"  -> IIR1Coefficients_lowshelf(f0, gain, fs)
      [] func = "highshelf" -> IIR1Coefficients_highshelf(f0, gain, fs)

\* iir2_func: fn(T, T, T, T) -> IIR2Coefficients<T>.
iir2_func(func, f0, q_value, gain, fs) ==
    CASE func = "lowpass"   -> IIR2Coefficients_lowpass(f0, q_value, gain, fs)
      [] func = "highpass"  -> IIR2Coefficients_highpass(f0, q_value, gain, fs)
      [] func = "allpass"   -> IIR2Coefficients_allpass(f0, q_value, gain, fs)
      [] func = "lowshelf"  -> IIR2Coefficients_lowshelf(f0, q_value, gain, fs)
      [] func = "highshelf" -> IIR2Coefficients_highshelf(f0, q_value, gain, fs)

\* A constructor call that panicked before returning.
Panicked(why) == [ok |-> FALSE, panic |-> why]

\* A constructor call that returned `coeffs`; `calls` lists the stage
\* constructor calls it made, in call order: the stage built (its order,
\* 1 or 2, and its index in iir2) and the gain argument passed.
Returned(coeffs, calls) == [ok |-> TRUE, coeffs |-> coeffs, calls |-> calls]

\* NumCast::from(slope): truncation toward zero, None below zero.
CastToUsize(slope) == Quot(slope, ONE)

CastFails(slope) == slope <= -ONE

\* odd_order_of with the mask 3 in place of 1.
odd_order_of_mask3(u_slope) == u_slope % 4 = 1

\* let odd_order = u_slope & 1usize == 1usize;
odd_order_of(u_slope) == u_slope % 2 = 1

\* let mut partial_gain = gain / NumCast::from(u_slope).unwrap();
partial_gain_1(gain, u_slope) == Div(gain, Num(u_slope))

\* partial_gain_2 without the doubling.
partial_gain_2_not_doubled(gain, u_slope) == partial_gain_1(gain, u_slope)

\* partial_gain = partial_gain * Into::<T>::into(2.0);
partial_gain_2(gain, u_slope) == Mul(partial_gain_1(gain, u_slope), N2)

\* cascade_count rounding the pairs up.
cascade_count_round_up(u_slope, start_pole) == (u_slope + 1) \div 2

\* ((u_slope as usize - start_pole) / 2usize) as usize
cascade_count(u_slope, start_pole) == (u_slope - start_pole) \div 2

\* LoopOverruns for a loop that writes only the entries that exist and
\* never panics.
LoopOverruns_unchecked(iir2_cascade_count) == FALSE

\* iir2[i] = ... is bounds-checked: the loop panics at the first i that
\* is not an index of [IIR2Coefficients; MAX_POLE_COUNT].
LoopOverruns(iir2_cascade_count) ==
    \E i \in 0 .. (iir2_cascade_count - 1) : i >= MAX_POLE_COUNT

\* requested_pole without the start_pole offset.
requested_pole_no_offset(i, start_pole) == i % U8

\* requested_pole with the stage index counted in steps of two.
requested_pole_stride2(i, start_pole) == 2 * (i % U8) + start_pole

\* The pole argument of the call in the loop body: i as u8 + start_pole as u8
requested_pole(i, start_pole) == (i % U8) + start_pole

filter_type_1(f0, bw, slope, gain, fs, func1, func2) ==
    LET u_slope == CastToUsize(slope)
        odd_order == odd_order_of(u_slope)
        iir1_enabled == odd_order
        start_pole == IF iir1_enabled THEN 1 ELSE 0
        iir1 == IF odd_order
                THEN iir1_func(func1, f0, partial_gain_1(gain, u_slope), fs)
                ELSE IIR1Coefficients_empty
        process == IF odd_order
                   THEN "ProcessOddOrderCascade"
                   ELSE "ProcessEvenOrderCascade"
        q_value == bw_to_q(bw, f0, fs)
        q_offset == Mul(q_value, FRAC_1_SQRT_2)
        iir2_cascade_count == cascade_count(u_slope, start_pole)
        q_of(i) == butterworth_cascade_q(u_slope % U8,
                                         requested_pole(i, start_pole))
        stage(i) ==
            iir2_func(func2, f0, Mul(q_of(i), q_offset),
                      partial_gain_2(gain, u_slope), fs)
        iir1_calls == IF odd_order
                      THEN << [order |-> 1, idx |-> 0,
                               gain |-> partial_gain_1(gain, u_slope)] >>
                      ELSE << >>
        iir2_calls == [n \in 1 .. iir2_cascade_count |->
                         [order |-> 2, idx |-> n - 1,
                          gain |-> partial_gain_2(gain, u_slope),
                          q_order |-> u_slope % U8,
                          pole |-> requested_pole(n - 1, start_pole),
                          q |-> q_of(n - 1)]]
    IN  IF CastFails(slope)
        THEN Panicked("unwrap on None")
        ELSE IF odd_order /\ u_slope <= 1
        THEN Returned([iir1 |-> iir1,
                       iir2 |-> [i \in StageIdx |-> IIR2Coefficients_empty],
                       process |-> "ProcessIIR1Only",
                       iir2_cascade_count |-> 0,
                       iir1_enabled |-> iir1_enabled],
                      iir1_calls)
        ELSE IF LoopOverruns(iir2_cascade_count)
        THEN Panicked("index out of bounds")
        ELSE Returned([iir1 |-> iir1,
                       iir2 |-> [i \in StageIdx |->
                                   IF i < iir2_cascade_count
                                   THEN stage(i)
                                   ELSE IIR2Coefficients_empty],
                       process |-> process,
                       iir2_cascade_count |-> iir2_cascade_count,
                       iir1_enabled |-> iir1_enabled],
                      iir1_calls \o iir2_calls)

lowpass(f0, bw, slope, fs) ==
    filter_type_1(f0, bw, slope, 0, fs, "lowpass", "lowpass")

highpass(f0, bw, slope, fs) ==
    filter_type_1(f0, bw, slope, 0, fs, "highpass", "highpass")

allpass(f0, bw, slope, fs) ==
    filter_type_1(f0, bw, slope, 0, fs, "allpass", "allpass")

lowshelf(f0, gain, bw, slope, fs) ==
    filter_type_1(f0, bw, slope, gain, fs, "lowshelf", "lowshelf")

highshelf(f0, gain, bw, slope, fs) ==
    filter_type_1(f0, bw, slope, gain, fs, "highshelf", "highshelf")

\* SingleBiquad that counts its stage in iir2_cascade_count.
SingleBiquad_counted(stage0, gain_arg) ==
    Returned([iir1 |-> IIR1Coefficients_empty,
              iir2 |-> [i \in StageIdx |->
                          IF i = 0 THEN stage0 ELSE IIR2Coefficients_empty],
              process |-> "ProcessIIR2Only",
              iir2_cascade_count |-> 1,
              iir1_enabled |-> FALSE],
             << [order |-> 2, idx |-> 0, gain |-> gain_arg] >>)

\* notch, bandpass and bell: iir2[0] alone, iir2_cascade_count = 0.
SingleBiquad(stage0, gain_arg) ==
    Returned([iir1 |-> IIR1Coefficients_empty,
              iir2 |-> [i \in StageIdx |->
                          IF i = 0 THEN stage0 ELSE IIR2Coefficients_empty],
              process |-> "ProcessIIR2Only",
              iir2_cascade_count |-> 0,
              iir1_enabled |-> FALSE],
             << [order |-> 2, idx |-> 0, gain |-> gain_arg] >>)

notch(f0, gain, bw, fs) ==
    SingleBiquad(IIR2Coefficients_notch(f0, bw_to_q(bw, f0, fs), 0, fs), 0)

bandpass(f0, gain, bw, fs) ==
    SingleBiquad(IIR2Coefficients_bandpass(f0, bw_to_q(bw, f0, fs), 0, fs), 0)

bell(f0, gain, bw, fs) ==
    SingleBiquad(IIR2Coefficients_bell(f0, bw_to_q(bw, f0, fs), gain, fs),
                 gain)

\* get_bode_sample multiplies the complex responses of stages of the set.
\* The product is carried as the list of its factors, each named by the
\* stage whose response it is (order 1: iir1; order 2: iir2[idx]).
Factor(order, idx) == [order |-> order, idx |-> idx]

get_bode_sample(self) ==
    IF self.iir1_enabled
    THEN << Factor(1, 0) >>
         \o [n \in 1 .. self.iir2_cascade_count |-> Factor(2, n - 1)]
    ELSE << Factor(2, 0) >>
         \o [n \in 1 .. (self.iir2_cascade_count - 1) |-> Factor(2, n)]

Type1Kinds == {"lowpass", "highpass", "allpass", "lowshelf", "highshelf"}

BiquadKinds == {"notch", "bandpass", "bell"}

Kinds == Type1Kinds \cup BiquadKinds

\* One call of a FilterBandCoefficients constructor, by the name of the
\* constructor; lowpass, highpass and allpass have no gain parameter.
Construct(inp) ==
    CASE inp.kind = "lowpass"   -> lowpass(inp.f0, inp.bw, inp.slope, inp.fs)
      [] inp.kind = "highpass"  -> highpass(inp.f0, inp.bw, inp.slope, inp.fs)
      [] inp.kind = "allpass"   -> allpass(inp.f0, inp.bw, inp.slope, inp.fs)
      [] inp.kind = "lowshelf"  ->
            lowshelf(inp.f0, inp.gain, inp.bw, inp.slope, inp.fs)
      [] inp.kind = "highshelf" ->
            highshelf(inp.f0, inp.gain, inp.bw, inp.slope, inp.fs)
      [] inp.kind = "notch"     -> notch(inp.f0, inp.gain, inp.bw, inp.fs)
      [] inp.kind = "bandpass"  -> bandpass(inp.f0, inp.gain, inp.bw, inp.fs)
      [] inp.kind = "bell"      -> bell(inp.f0, inp.gain, inp.bw, inp.fs)

\* ------------------------------------------------------------------------
\* Wide coefficient sets (first_order_iir_wide.rs, second_order_iir_wide.rs,
\* filter_band_wide.rs)
\* ------------------------------------------------------------------------

\* T::from_w(n): the value n in every lane.  The coefficients are taken to
\* be computed in a type the lane type holds exactly.
from_w(n, W) == [j \in 1 .. W |-> n]

LAdd(x, y) == [j \in DOMAIN x |-> x[j] + y[j]]

\* LSub that subtracts lane 1 of y from every lane of x.
LSub_first_lane(x, y) == [j \in DOMAIN x |-> x[j] - y[1]]

LSub(x, y) == [j \in DOMAIN x |-> x[j] - y[j]]

LMul(x, y) == [j \in DOMAIN x |-> Mul(x[j], y[j])]

WideIIR1Coefficients_from(coeffs, W) ==
    [a |-> from_w(coeffs.a, W), g |-> from_w(coeffs.g, W),
     a1 |-> from_w(coeffs.a1, W), m0 |-> from_w(coeffs.m0, W),
     m1 |-> from_w(coeffs.m1, W), fs |-> from_w(coeffs.fs, W)]

WideIIR2Coefficients_from(coeffs, W) ==
    LET g == from_w(coeffs.g, W)
    IN  [a |-> from_w(coeffs.a, W), g |-> g, gpow2 |-> LMul(g, g),
         k |-> from_w(coeffs.k, W), a1 |-> from_w(coeffs.a1, W),
         a2 |-> from_w(coeffs.a2, W), a3 |-> from_w(coeffs.a3, W),
         m0 |-> from_w(coeffs.m0, W), m1 |-> from_w(coeffs.m1, W),
         m2 |-> from_w(coeffs.m2, W), fs |-> from_w(coeffs.fs, W)]

\* WideF64FilterBandCoefficients::from (W = 4) and
\* WideF32FilterBandCoefficients::from (W = 8); with W = 1 the scalar set.
WideFilterBandCoefficients_from(coeffs, W) ==
    [iir1 |-> WideIIR1Coefficients_from(coeffs.iir1, W),
     iir2 |-> [i \in StageIdx |-> WideIIR2Coefficients_from(coeffs.iir2[i], W)],
     process |-> coeffs.process,
     iir2_cascade_count |-> coeffs.iir2_cascade_count,
     iir1_enabled |-> coeffs.iir1_enabled]

\* ------------------------------------------------------------------------
\* Stages: IIR1 / WideIIR1 and IIR2 / WideIIR2
\* ------------------------------------------------------------------------

IIR1_new(coefficients, W) ==
    [ic1eq |-> from_w(0, W), coeffs |-> coefficients]

\* IIR2_new that starts ic2eq at one.
IIR2_new_ic2eq_one(coefficients, W) ==
    [ic1eq |-> from_w(0, W), ic2eq |-> from_w(ONE, W), coeffs |-> coefficients]

IIR2_new(coefficients, W) ==
    [ic1eq |-> from_w(0, W), ic2eq |-> from_w(0, W), coeffs |-> coefficients]

\* IIR1_process that leaves v2, not v2 + v1, in ic1eq.
IIR1_process_keeps_v2(self, input) ==
    LET v1 == LMul(self.coeffs.a1, LSub(input, self.ic1eq))
        v2 == LAdd(v1, self.ic1eq)
    IN  [self |-> [self EXCEPT !.ic1eq = v2],
         y |-> LAdd(LMul(self.coeffs.m0, input), LMul(self.coeffs.m1, v2))]

\* The stage after the call, and the value the call returns.
IIR1_process(self, input) ==
    LET v1 == LMul(self.coeffs.a1, LSub(input, self.ic1eq))
        v2 == LAdd(v1, self.ic1eq)
    IN  [self |-> [self EXCEPT !.ic1eq = LAdd(v2, v1)],
         y |-> LAdd(LMul(self.coeffs.m0, input), LMul(self.coeffs.m1, v2))]

\* IIR2_process that takes v2 from the ic1eq it has just written.
IIR2_process_new_ic1eq(self, input) ==
    LET two == from_w(N2, Len(input))
        v3 == LSub(input, self.ic2eq)
        v1 == LAdd(LMul(self.coeffs.a1, self.ic1eq), LMul(self.coeffs.a2, v3))
        ic1eq == LSub(LMul(two, v1), self.ic1eq)
        v2 == LAdd(LAdd(self.ic2eq, LMul(self.coeffs.a2, ic1eq)),
                   LMul(self.coeffs.a3, v3))
    IN  [self |-> [self EXCEPT !.ic1eq = ic1eq,
                               !.ic2eq = LSub(LMul(two, v2), self.ic2eq)],
         y |-> LAdd(LAdd(LMul(self.coeffs.m0, input),
                         LMul(self.coeffs.m1, v1)),
                    LMul(self.coeffs.m2, v2))]

IIR2_process(self, input) ==
    LET two == from_w(N2, Len(input))
        v3 == LSub(input, self.ic2eq)
        v1 == LAdd(LMul(self.coeffs.a1, self.ic1eq), LMul(self.coeffs.a2, v3))
        v2 == LAdd(LAdd(self.ic2eq, LMul(self.coeffs.a2, self.ic1eq)),
                   LMul(self.coeffs.a3, v3))
    IN  [self |-> [self EXCEPT !.ic1eq = LSub(LMul(two, v1), self.ic1eq),
                               !.ic2eq = LSub(LMul(two, v2), self.ic2eq)],
         y |-> LAdd(LAdd(LMul(self.coeffs.m0, input),
                         LMul(self.coeffs.m1, v1)),
                    LMul(self.coeffs.m2, v2))]

IIR1_update_coefficients(self, new_coefficients) ==
    [self EXCEPT !.coeffs = new_coefficients]

\* IIR2_update_coefficients rebuilding the stage, which zeroes its state.
IIR2_update_coefficients_rebuild(self, new_coefficients) ==
    IIR2_new(new_coefficients, Len(self.ic1eq))

IIR2_update_coefficients(self, new_coefficients) ==
    [self EXCEPT !.coeffs = new_coefficients]

\* ------------------------------------------------------------------------
\* FilterBand, WideF64FilterBand, WideF32FilterBand
\* (filter_band.rs, filter_band_wide.rs)
\* ------------------------------------------------------------------------

Variants == {"FilterBand", "WideF64FilterBand", "WideF32FilterBand"}

LinkwitzRileyVariants ==
    {"LinkwitzRileyBand", "WideF64LinkwitzRileyBand",
     "WideF32LinkwitzRileyBand"}

Lanes(v) ==
    CASE v \in {"FilterBand", "LinkwitzRileyBand"}               -> 1
      [] v \in {"WideF64FilterBand", "WideF64LinkwitzRileyBand"} -> LanesF64
      [] v \in {"WideF32FilterBand", "WideF32LinkwitzRileyBand"} -> LanesF32

\* from: every iir2 stage is IIR2::new(coeffs.iir2[0]).
FilterBand_from(coeffs, W) ==
    [iir1 |-> IIR1_new(coeffs.iir1, W),
     iir2 |-> [i \in StageIdx |-> IIR2_new(coeffs.iir2[0], W)],
     iir2_cascade_count |-> coeffs.iir2_cascade_count,
     process |-> coeffs.process]

\* The outcome of a process call: the band after it, the value returned,
\* the stage calls made in order, and the panic that ended it (if any).
Outcome(self, y, trace, panic) ==
    [self |-> self, y |-> y, trace |-> trace, panic |-> panic]

Ran(order, idx, input, output) ==
    [order |-> order, idx |-> idx, input |-> input, output |-> output]

process_iir1_only(self, x) ==
    LET r == IIR1_process(self.iir1, x)
    IN  Outcome([self EXCEPT !.iir1 = r.self], r.y,
                << Ran(1, 0, x, r.y) >>, "none")

\* process_iir2_only that leaves the stepped stage in iir2[1] as well.
process_iir2_only_writes_next(self, x) ==
    LET r == IIR2_process(self.iir2[0], x)
    IN  Outcome([self EXCEPT !.iir2[0] = r.self, !.iir2[1] = r.self], r.y,
                << Ran(2, 0, x, r.y) >>, "none")

process_iir2_only(self, x) ==
    LET r == IIR2_process(self.iir2[0], x)
    IN  Outcome([self EXCEPT !.iir2[0] = r.self], r.y,
                << Ran(2, 0, x, r.y) >>, "none")

RECURSIVE CascadeLoop_stops_on_silence(_, _, _, _)
\* CascadeLoop that leaves the loop when the signal is zero in every lane.
CascadeLoop_stops_on_silence(self, i, x, trace) ==
    IF i >= self.iir2_cascade_count \/ x = from_w(0, Len(x))
    THEN Outcome(self, x, trace, "none")
    ELSE IF i \notin StageIdx
    THEN Outcome(self, x, trace, "index out of bounds")
    ELSE LET r == IIR2_process(self.iir2[i], x)
         IN  CascadeLoop_stops_on_silence([self EXCEPT !.iir2[i] = r.self],
                                          i + 1, r.y,
                                          Append(trace, Ran(2, i, x, r.y)))

RECURSIVE CascadeLoop(_, _, _, _)
\* for i in 0..self.iir2_cascade_count { x = self.iir2[i].process(x); }
\* from index i on; self.iir2[i] is bounds-checked.
CascadeLoop(self, i, x, trace) ==
    IF i >= self.iir2_cascade_count
    THEN Outcome(self, x, trace, "none")
    ELSE IF i \notin StageIdx
    THEN Outcome(self, x, trace, "index out of bounds")
    ELSE LET r == IIR2_process(self.iir2[i], x)
         IN  CascadeLoop([self EXCEPT !.iir2[i] = r.self], i + 1, r.y,
                         Append(trace, Ran(2, i, x, r.y)))

\* assert!(self.iir2.len() >= self.iir2_cascade_count), wide bands only.
AssertFails(self, W) == W > 1 /\ ~(MAX_POLE_COUNT >= self.iir2_cascade_count)

process_even_order_cascade(self, x, W) ==
    IF AssertFails(self, W)
    THEN Outcome(self, x, << >>, "assertion failed")
    ELSE CascadeLoop(self, 0, x, << >>)

\* process_odd_order_cascade with the first-order stage run last.
process_odd_order_cascade_iir1_last(self, x, W) ==
    LET r == CascadeLoop(self, 0, x, << >>)
        r1 == IIR1_process(r.self.iir1, r.y)
    IN  Outcome([r.self EXCEPT !.iir1 = r1.self], r1.y,
                Append(r.trace, Ran(1, 0, r.y, r1.y)), r.panic)

process_odd_order_cascade(self, x, W) ==
    IF AssertFails(self, W)
    THEN Outcome(self, x, << >>, "assertion failed")
    ELSE LET r == IIR1_process(self.iir1, x)
         IN  CascadeLoop([self EXCEPT !.iir1 = r.self], 0, r.y,
                         << Ran(1, 0, x, r.y) >>)

\* (self.process)(&mut self, x): the routine get_process stored.
FilterBand_process(self, x, W) ==
    CASE self.process = "ProcessIIR1Only" -> process_iir1_only(self, x)
      [] self.process = "ProcessIIR2Only" -> process_iir2_only(self, x)
      [] self.process = "ProcessEvenOrderCascade" ->
            process_even_order_cascade(self, x, W)
      [] self.process = "ProcessOddOrderCascade" ->
            process_odd_order_cascade(self, x, W)

\* FilterBand_update writing only the stages the new set runs.
FilterBand_update_active_only(self, coeffs) ==
    [iir1 |-> IIR1_update_coefficients(self.iir1, coeffs.iir1),
     iir2 |-> [i \in StageIdx |->
                 IF i < coeffs.iir2_cascade_count
                 THEN IIR2_update_coefficients(self.iir2[i], coeffs.iir2[i])
                 ELSE self.iir2[i]],
     iir2_cascade_count |-> coeffs.iir2_cascade_count,
     process |-> coeffs.process]

\* FilterBand_update adding the new cascade count to the old one.
FilterBand_update_accumulate(self, coeffs) ==
    [iir1 |-> IIR1_update_coefficients(self.iir1, coeffs.iir1),
     iir2 |-> [i \in StageIdx |->
                 IIR2_update_coefficients(self.iir2[i], coeffs.iir2[i])],
     iir2_cascade_count |-> self.iir2_cascade_count + coeffs.iir2_cascade_count,
     process |-> coeffs.process]

FilterBand_update(self, coeffs) ==
    [iir1 |-> IIR1_update_coefficients(self.iir1, coeffs.iir1),
     iir2 |-> [i \in StageIdx |->
                 IIR2_update_coefficients(self.iir2[i], coeffs.iir2[i])],
     iir2_cascade_count |-> coeffs.iir2_cascade_count,
     process |-> coeffs.process]

\* ------------------------------------------------------------------------
\* Linkwitz-Riley bands (linkwitz_riley.rs, linkwitz_riley_wide.rs)
\* ------------------------------------------------------------------------

\* self.coeffs.get_bode_sample(z) * self.coeffs.get_bode_sample(z): the
\* factors of the band's response, twice.
LinkwitzRileyCoefficients_get_bode_sample(self) ==
    get_bode_sample(self.coeffs) \o get_bode_sample(self.coeffs)

LinkwitzRileyBand_from(coeffs, W) ==
    [filter1 |-> FilterBand_from(coeffs, W),
     filter2 |-> FilterBand_from(coeffs, W),
     process |-> coeffs.process]

\* self.filter2.routine(self.filter1.routine(x)): r1 is the outcome of the
\* call on filter1 and r2 the outcome of the call on filter2 given r1.y; the
\* second call is made only when the first one returned.
InSeries(self, r1, r2) ==
    IF r1.panic # "none"
    THEN Outcome([self EXCEPT !.filter1 = r1.self], r1.y, r1.trace, r1.panic)
    ELSE Outcome([self EXCEPT !.filter1 = r1.self, !.filter2 = r2.self],
                 r2.y, r1.trace \o r2.trace, r2.panic)

LinkwitzRileyBand_process_iir1_only(self, x) ==
    LET r1 == process_iir1_only(self.filter1, x)
    IN  InSeries(self, r1, process_iir1_only(self.filter2, r1.y))

LinkwitzRileyBand_process_iir2_only(self, x) ==
    LET r1 == process_iir2_only(self.filter1, x)
    IN  InSeries(self, r1, process_iir2_only(self.filter2, r1.y))

LinkwitzRileyBand_process_even_order_cascade(self, x, W) ==
    LET r1 == process_even_order_cascade(self.filter1, x, W)
    IN  InSeries(self, r1, process_even_order_cascade(self.filter2, r1.y, W))

LinkwitzRileyBand_process_odd_order_cascade(self, x, W) ==
    LET r1 == process_odd_order_cascade(self.filter1, x, W)
    IN  InSeries(self, r1, process_odd_order_cascade(self.filter2, r1.y, W))

\* (self.process)(&mut self, x): the routine get_process stored.
LinkwitzRileyBand_process(self, x, W) ==
    CASE self.process = "ProcessIIR1Only" ->
            LinkwitzRileyBand_process_iir1_only(self, x)
      [] self.process = "ProcessIIR2Only" ->
            LinkwitzRileyBand_process_iir2_only(self, x)
      [] self.process = "ProcessEvenOrderCascade" ->
            LinkwitzRileyBand_process_even_order_cascade(self, x, W)
      [] self.process = "ProcessOddOrderCascade" ->
            LinkwitzRileyBand_process_odd_order_cascade(self, x, W)

\* LinkwitzRileyBand_update that leaves filter2 as it was.
LinkwitzRileyBand_update_filter1_only(self, coeffs) ==
    [filter1 |-> FilterBand_update(self.filter1, coeffs),
     filter2 |-> self.filter2,
     process |-> coeffs.process]

LinkwitzRileyBand_update(self, coeffs) ==
    [filter1 |-> FilterBand_update(self.filter1, coeffs),
     filter2 |-> FilterBand_update(self.filter2, coeffs),
     process |-> coeffs.process]

\* ------------------------------------------------------------------------
\* Bounds and input sets
\* ------------------------------------------------------------------------

\* Orders 0 .. MaxSmallOrder are tried, besides the orders around the
\* capacity of the iir2 array and around the u8 wrap.
MaxSmallOrder == 8

\* Calls of update and process made on one band after from.
MaxCalls == 2

Orders ==
    (0 .. MaxSmallOrder)
    \cup ((MAX_POLE_COUNT - 1) .. (MAX_POLE_COUNT + 1))
    \cup ((2 * MAX_POLE_COUNT - 1) .. (2 * MAX_POLE_COUNT + 3))
    \cup {U8, U8 + 1}

Slopes ==
    {Num(n) : n \in Orders}
    \cup {Num(2) + N0_5, Num(3) + N0_5}
    \cup {-N0_5, -ONE, -Num(2)}

Gains == {0, Num(1), Num(6), -Num(6)}

SampleRate == Num(8)

\* Cutoffs below, at and above half the sample rate.
Cutoffs == {Num(1), Num(2), Num(4), Num(8)}

Bandwidths == {ONE, N2}

HasGain(kind) == kind \in {"lowshelf", "highshelf", "notch", "bandpass", "bell"}

HasSlope(kind) == kind \in Type1Kinds

\* The argument lists of the eight constructors; a parameter a constructor
\* does not have is held at one value.
Inputs ==
    {i \in [kind : Kinds, f0 : Cutoffs, gain : Gains, bw : Bandwidths,
            slope : Slopes, fs : {SampleRate}] :
        /\ ~HasGain(i.kind) => i.gain = 0
        /\ ~HasSlope(i.kind) => i.slope = N2}

\* The (constructor, order) pairs whose coefficient sets are given to bands.
BandPairs ==
    {<<"lowpass", 1>>, <<"lowpass", 4>>, <<"highpass", 3>>,
     <<"highpass", 2 * MAX_POLE_COUNT>>,
     <<"allpass", 2 * MAX_POLE_COUNT + 1>>,
     <<"allpass", 2 * MAX_POLE_COUNT + 2>>,
     <<"lowshelf", 0>>, <<"lowshelf", 5>>, <<"highshelf", 2>>,
     <<"notch", 2>>, <<"bandpass", 2>>, <<"bell", 2>>}

BandInputs ==
    {i \in Inputs :
        /\ <<i.kind, CastToUsize(i.slope)>> \in BandPairs
        /\ i.slope = Num(CastToUsize(i.slope))
        /\ i.f0 = Num(2)
        /\ i.bw = ONE
        /\ i.gain = IF i.kind \in {"lowshelf", "highshelf", "bell"}
                    THEN Num(6) ELSE 0}

\* Input samples: lane j of a wide sample carries j times the base value.
BaseSamples == {ONE, -N0_5}

Samples(W) == {[j \in 1 .. W |-> b * j] : b \in BaseSamples}

\* ------------------------------------------------------------------------
\* State
\* ------------------------------------------------------------------------

VARIABLES
    variant,   \* which band type the band is
    band,      \* the band: iir1, iir2, iir2_cascade_count, process
    op,        \* the last call made: "from", "build", "update" or "process"
    inp,       \* the constructor arguments of the coefficient set last built
    x,         \* the sample of the last process call
    y,         \* the value the last process call returned
    trace,     \* the stage calls the last process call made, in order
    panic,     \* "none", or the panic that ended a process call
    ncalls,    \* calls made on the band since from
    res        \* the result of the last constructor call

vars == <<variant, band, op, inp, x, y, trace, panic, ncalls, res>>

Pending == [ok |-> FALSE, panic |-> "pending"]

\* The inputs of BandInputs whose constructor call returns.
BandReturned == {i \in BandInputs : Construct(i).ok}

\* The coefficient set built from `i`, as a band of W lanes takes it.
CoeffsFor(i, W) == WideFilterBandCoefficients_from(Construct(i).coeffs, W)

\* ------------------------------------------------------------------------
\* The band: from, then update and process calls
\* ------------------------------------------------------------------------

Init ==
    /\ variant \in Variants
    /\ inp \in BandReturned
    /\ res = Construct(inp)
    /\ band = FilterBand_from(
                  WideFilterBandCoefficients_from(res.coeffs, Lanes(variant)),
                  Lanes(variant))
    /\ op = "from"
    /\ x = from_w(0, Lanes(variant))
    /\ y = from_w(0, Lanes(variant))
    /\ trace = << >>
    /\ panic = "none"
    /\ ncalls = 0

\* The caller builds the coefficient set it will give to update next; a
\* constructor that panics ends the program before the band is touched.
Configure ==
    /\ panic = "none"
    /\ res.ok
    /\ op # "build"
    /\ ncalls < MaxCalls
    /\ \E i \in BandInputs :
          /\ inp' = i
          /\ res' = Construct(i)
    /\ op' = "build"
    /\ UNCHANGED <<variant, band, x, y, trace, panic, ncalls>>

Update ==
    /\ panic = "none"
    /\ res.ok
    /\ ncalls < MaxCalls
    /\ band' = FilterBand_update(
                   band,
                   WideFilterBandCoefficients_from(res.coeffs, Lanes(variant)))
    /\ op' = "update"
    /\ trace' = << >>
    /\ ncalls' = ncalls + 1
    /\ UNCHANGED <<variant, inp, res, x, y, panic>>

\* One sample through the band; the caller has no set waiting for update.
Process ==
    /\ panic = "none"
    /\ res.ok
    /\ op # "build"
    /\ ncalls < MaxCalls
    /\ \E s \in Samples(Lanes(variant)) :
          LET r == FilterBand_process(band, s, Lanes(variant))
          IN  /\ x' = s
              /\ band' = r.self
              /\ y' = r.y
              /\ trace' = r.trace
              /\ panic' = r.panic
    /\ op' = "process"
    /\ ncalls' = ncalls + 1
    /\ UNCHANGED <<variant, inp, res>>

Next == Configure \/ Update \/ Process

Spec == Init /\ [][Next]_vars

\* ------------------------------------------------------------------------
\* Coefficient construction alone: one constructor call per behaviour
\* ------------------------------------------------------------------------

InitCoeffs ==
    /\ inp \in Inputs
    /\ res = Pending
    /\ variant = "FilterBand"
    /\ band = << >>
    /\ op = "none"
    /\ x = << >>
    /\ y = << >>
    /\ trace = << >>
    /\ panic = "none"
    /\ ncalls = 0

Build ==
    /\ res = Pending
    /\ res' = Construct(inp)
    /\ op' = "build"
    /\ UNCHANGED <<variant, band, inp, x, y, trace, panic, ncalls>>

NextCoeffs == Build

SpecCoeffs == InitCoeffs /\ [][NextCoeffs]_vars

\* ------------------------------------------------------------------------
\* Properties
\* ------------------------------------------------------------------------

Zero(W) == from_w(0, W)

Built == res # Pending

Order == CastToUsize(inp.slope)

\* The poles a coefficient set realises: one for the first-order stage,
\* two for each stage of the cascade.
RealisedOrder(c) == (IF c.iir1_enabled THEN 1 ELSE 0) + 2 * c.iir2_cascade_count

\* C1: every coefficient set given to a band has iir2_cascade_count <=
\* MAX_POLE_COUNT, so has every band after from / update; no process call
\* indexes iir2 outside 0 .. MAX_POLE_COUNT - 1 and no process call panics
\* (neither on an index nor on the assertion of the wide cascade routines).
C1_CascadeWithinCapacity ==
    /\ res.ok => res.coeffs.iir2_cascade_count <= MAX_POLE_COUNT
    /\ band.iir2_cascade_count <= MAX_POLE_COUNT
    /\ panic = "none"
    /\ \A n \in 1 .. Len(trace) :
          trace[n].order = 2 => trace[n].idx \in StageIdx

\* A wide band has run a cascade that fills the whole iir2 array.
C1_Witness ==
    /\ op = "process"
    /\ variant = "WideF32FilterBand"
    /\ band.iir2_cascade_count = MAX_POLE_COUNT
    /\ Len(trace) >= MAX_POLE_COUNT
    /\ trace[Len(trace)].idx = MAX_POLE_COUNT - 1

\* C2: a slope whose integer order exceeds MAX_POLE_COUNT is rejected or
\* clamped by lowpass / highpass / allpass / lowshelf / highshelf: the call
\* panics, or the set it returns realises an order of at most
\* MAX_POLE_COUNT.
C2_OrderAboveCapacityRejectedOrClamped ==
    (/\ Built
     /\ HasSlope(inp.kind)
     /\ ~CastFails(inp.slope)
     /\ Order > MAX_POLE_COUNT)
    => (~res.ok \/ RealisedOrder(res.coeffs) <= MAX_POLE_COUNT)

\* C3: the process type and iir1_enabled of a built set: order 1 gives
\* ProcessIIR1Only with iir1_enabled, an odd order above 1
\* ProcessOddOrderCascade with iir1_enabled, an even order
\* ProcessEvenOrderCascade without; notch, bandpass and bell always give
\* ProcessIIR2Only without iir1_enabled.
C3_ProcessTypeSelection ==
    res.ok =>
        IF HasSlope(inp.kind)
        THEN /\ Order = 1 =>
                  /\ res.coeffs.process = "ProcessIIR1Only"
                  /\ res.coeffs.iir1_enabled
             /\ (Order % 2 = 1 /\ Order > 1) =>
                  /\ res.coeffs.process = "ProcessOddOrderCascade"
                  /\ res.coeffs.iir1_enabled
             /\ Order % 2 = 0 =>
                  /\ res.coeffs.process = "ProcessEvenOrderCascade"
                  /\ ~res.coeffs.iir1_enabled
        ELSE /\ res.coeffs.process = "ProcessIIR2Only"
             /\ ~res.coeffs.iir1_enabled

\* A shelf of odd order above 1 has been built.
C3_Witness ==
    /\ res.ok
    /\ inp.kind = "highshelf"
    /\ Order = 5
    /\ res.coeffs.process = "ProcessOddOrderCascade"

\* C4: for lowpass / highpass / allpass / lowshelf / highshelf of order n
\* whose constructor returns, iir2_cascade_count = (n - start_pole) div 2
\* with start_pole = 1 if iir1_enabled else 0, and start_pole +
\* 2 * iir2_cascade_count = n.
C4_PoleAccounting ==
    (res.ok /\ HasSlope(inp.kind)) =>
        LET start_pole == IF res.coeffs.iir1_enabled THEN 1 ELSE 0
        IN  /\ res.coeffs.iir2_cascade_count = (Order - start_pole) \div 2
            /\ start_pole + 2 * res.coeffs.iir2_cascade_count = Order

\* An odd order has been split into the first-order stage and three pairs.
C4_Witness ==
    /\ res.ok
    /\ HasSlope(inp.kind)
    /\ Order = 7
    /\ res.coeffs.iir1_enabled
    /\ res.coeffs.iir2_cascade_count = 3

\* The stage calls a process call on `self` is to make, in order.
ExpectedRun(self) ==
    LET cascade == [n \in 1 .. self.iir2_cascade_count |-> Factor(2, n - 1)]
    IN  CASE self.process = "ProcessIIR1Only" -> << Factor(1, 0) >>
          [] self.process = "ProcessIIR2Only" -> << Factor(2, 0) >>
          [] self.process = "ProcessEvenOrderCascade" -> cascade
          [] self.process = "ProcessOddOrderCascade" ->
                << Factor(1, 0) >> \o cascade

\* The n-th stage call of `tr` is one step of the stage it names, taken
\* from that stage's state in `before` and leaving it as it is in `after`.
StageStepped(tr, n, before, after) ==
    IF tr[n].order = 1
    THEN LET r == IIR1_process(before.iir1, tr[n].input)
         IN  tr[n].output = r.y /\ after.iir1 = r.self
    ELSE LET r == IIR2_process(before.iir2[tr[n].idx], tr[n].input)
         IN  tr[n].output = r.y /\ after.iir2[tr[n].idx] = r.self

\* C5: a process call runs the first-order stage (ProcessOddOrderCascade,
\* ProcessIIR1Only), then second-order stages 0 .. iir2_cascade_count - 1
\* in increasing order (the cascades) or stage 0 alone (ProcessIIR2Only),
\* each exactly once, each fed the output of the one before, the first fed
\* the sample; it returns the last output after exactly that many stage
\* updates.
C5_StageOrder ==
    [][op' = "process" =>
          LET expected == ExpectedRun(band)
          IN  /\ panic' = "none"
              /\ Len(trace') = Len(expected)
              /\ \A n \in 1 .. Len(trace') :
                    /\ Factor(trace'[n].order, trace'[n].idx) = expected[n]
                    /\ trace'[n].input =
                          (IF n = 1 THEN x' ELSE trace'[n - 1].output)
                    /\ StageStepped(trace', n, band, band')
              /\ y' = (IF Len(trace') = 0
                       THEN x'
                       ELSE trace'[Len(trace')].output)]_vars

\* An odd cascade has run its first-order stage and two second-order
\* stages on a band whose integrators were already moving.
C5_Witness ==
    /\ op = "process"
    /\ ncalls = 2
    /\ band.process = "ProcessOddOrderCascade"
    /\ Len(trace) = 3
    /\ trace[3].output # Zero(Lanes(variant))

\* C6: update leaves ic1eq of the first-order stage and ic1eq / ic2eq of
\* all MAX_POLE_COUNT second-order stages as they were.
C6_UpdateKeepsIntegratorState ==
    [][op' = "update" =>
          /\ band'.iir1.ic1eq = band.iir1.ic1eq
          /\ \A i \in StageIdx :
                /\ band'.iir2[i].ic1eq = band.iir2[i].ic1eq
                /\ band'.iir2[i].ic2eq = band.iir2[i].ic2eq]_vars

\* An update has been made on a band whose integrators hold signal.
C6_Witness ==
    /\ op = "update"
    /\ band.iir2[0].ic1eq # Zero(Lanes(variant))
    /\ band.iir2[1].ic2eq # Zero(Lanes(variant))

\* C7: after update(c) the band holds c.iir1, c.iir2[i] for every i in
\* 0 .. MAX_POLE_COUNT - 1, c.iir2_cascade_count and the routine of
\* c.process, whatever was installed before.
C7_UpdateInstallsWholeSet ==
    op = "update" =>
        LET c == CoeffsFor(inp, Lanes(variant))
        IN  /\ band.iir1.coeffs = c.iir1
            /\ \A i \in StageIdx : band.iir2[i].coeffs = c.iir2[i]
            /\ band.iir2_cascade_count = c.iir2_cascade_count
            /\ band.process = c.process

\* A set with a single biquad has replaced a cascade that had run: stage 1
\* still holds signal, its coefficients are those of the new set.
C7_Witness ==
    /\ op = "update"
    /\ band.process = "ProcessIIR2Only"
    /\ band.iir2[1].ic1eq # Zero(Lanes(variant))
    /\ band.iir2[1].coeffs = CoeffsFor(inp, Lanes(variant)).iir2[1]

\* C8: update is idempotent: for every update(c) made on a band state s,
\* a second update(c) leaves the band (coefficients, integrator state,
\* cascade count, process routine) exactly as the first one left it.
C8_UpdateIdempotent ==
    [][op' = "update" =>
          LET c == WideFilterBandCoefficients_from(res.coeffs, Lanes(variant))
          IN  /\ band' = FilterBand_update(band, c)
              /\ FilterBand_update(band', c) = band']_vars

\* A band with signal in its first-order integrator, just updated.
C8_Witness ==
    /\ op = "update"
    /\ band.iir1.ic1eq # Zero(Lanes(variant))
    /\ band.iir2_cascade_count > 0

\* The stage calls the process routine selected by the set c makes.
ProcessStages(c) ==
    LET self == FilterBand_from(WideFilterBandCoefficients_from(c, 1), 1)
        tr == FilterBand_process(self, from_w(ONE, 1), 1).trace
    IN  [n \in 1 .. Len(tr) |-> Factor(tr[n].order, tr[n].idx)]

\* C9: the stage responses get_bode_sample multiplies are exactly the
\* stages the process routine of the set runs, no more and no fewer.
C9_BodeStagesAreProcessStages ==
    res.ok =>
        LET bode == get_bode_sample(res.coeffs)
            run == ProcessStages(res.coeffs)
        IN  /\ Len(bode) = Len(run)
            /\ \A n \in 1 .. Len(bode) : bode[n] = run[n]

RECURSIVE SumGains(_, _)
\* The sum of the gain arguments of calls[n], ..., calls[Len(calls)].
SumGains(calls, n) ==
    IF n > Len(calls) THEN 0 ELSE calls[n].gain + SumGains(calls, n + 1)

\* C10 as first stated: for lowshelf / highshelf of order n >= 1 the
\* first-order stage is built with gain G/n and each second-order stage
\* with 2 G/n, and the gains of the stages built sum to exactly G;
\* lowpass / highpass / allpass build every stage with gain 0.
C10_GainsSumExactly ==
    (res.ok /\ HasSlope(inp.kind) /\ Order >= 1) =>
        /\ \A n \in 1 .. Len(res.calls) :
              res.calls[n].gain =
                  IF res.calls[n].order = 1
                  THEN Div(inp.gain, Num(Order))
                  ELSE 2 * Div(inp.gain, Num(Order))
        /\ SumGains(res.calls, 1) = inp.gain

\* C10: for lowshelf / highshelf of order n >= 1 the first-order stage is
\* built with p, the quotient G/n as the sample type rounds it, and each
\* second-order stage with exactly 2 p; one call is made per stage the set
\* runs, so the gains sum to n p, which is G when the division is exact and
\* otherwise misses G by n times the rounding error of the division;
\* lowpass / highpass / allpass build every stage with gain 0.
C10_GainSplit ==
    (res.ok /\ HasSlope(inp.kind) /\ Order >= 1) =>
        LET p == Div(inp.gain, Num(Order))
        IN  /\ Len(res.calls) = Len(ExpectedRun(res.coeffs))
            /\ \A n \in 1 .. Len(res.calls) :
                  /\ Factor(res.calls[n].order, res.calls[n].idx) =
                        ExpectedRun(res.coeffs)[n]
                  /\ res.calls[n].gain =
                        IF res.calls[n].order = 1 THEN p ELSE 2 * p
            /\ SumGains(res.calls, 1) = Order * p
            /\ (p * Order = inp.gain) => SumGains(res.calls, 1) = inp.gain
            /\ Abs(inp.gain - SumGains(res.calls, 1)) < Order
            /\ ~HasGain(inp.kind) =>
                  \A n \in 1 .. Len(res.calls) : res.calls[n].gain = 0

\* A shelf whose gain does not divide evenly among its stages.
C10_Witness ==
    /\ res.ok
    /\ inp.kind = "lowshelf"
    /\ inp.gain = Num(1)
    /\ Order = 7
    /\ Len(res.calls) = 4
    /\ SumGains(res.calls, 1) # inp.gain

\* The calls of a coefficient set's builder that built a biquad.
BiquadCalls == {n \in 1 .. Len(res.calls) : res.calls[n].order = 2}

\* The pole indices the builder asked butterworth_cascade_q for.
RequestedPoles == {res.calls[n].pole : n \in BiquadCalls}

\* C18: a slope builder that returns asks butterworth_cascade_q for
\* (order, i + start_pole) for the stage i it builds; for an odd order the
\* indices asked for are exactly 1 .. (order - 1) / 2, never pole 0, for an
\* even order exactly 0 .. order / 2 - 1, and no index is asked for twice
\* or for two stages.
C18_PoleIndices ==
    (Built /\ res.ok /\ HasSlope(inp.kind)) =>
        /\ \A n \in BiquadCalls :
              /\ res.calls[n].q_order = Order
              /\ res.calls[n].pole =
                    res.calls[n].idx + (IF Order % 2 = 1 THEN 1 ELSE 0)
        /\ (Order % 2 = 1) =>
              /\ RequestedPoles = 1 .. ((Order - 1) \div 2)
              /\ 0 \notin RequestedPoles
        /\ (Order % 2 = 0) => RequestedPoles = 0 .. ((Order \div 2) - 1)
        /\ Cardinality(BiquadCalls) = res.coeffs.iir2_cascade_count
        /\ \A n, m \in BiquadCalls :
              (res.calls[n].pole = res.calls[m].pole
               \/ res.calls[n].idx = res.calls[m].idx) => n = m

\* An order-5 set was built: its two biquads asked for poles 1 and 2.
C18_Witness ==
    /\ Built /\ res.ok /\ HasSlope(inp.kind)
    /\ Order = 5
    /\ RequestedPoles = {1, 2}
    /\ Cardinality(BiquadCalls) = 2

\* The pole indices butterworth_cascade_q is defined for: the real pole 0
\* and the (order - 1) / 2 pairs of an odd order, the order / 2 pairs of an
\* even order.
ValidPoles(order) == 0 .. (((order + 1) \div 2) - 1)

\* 1 / (2 cos(angle)) with the angle taken in one step from the pole index:
\* (pole + 0.5) pi / order for an even order, pole pi / order for an odd one.
ClosedFormQ(order, pole) ==
    LET angle == IF order % 2 = 0
                 THEN Quot((2 * pole + 1) * PI, 2 * order)
                 ELSE Quot(pole * PI, order)
    IN  IF order % 2 = 1 /\ pole = 0
        THEN N0_5
        ELSE Div(ONE, Mul(N2, cos(angle)))

\* The Q values of orders 2, 4, 5 and 6, in units of 1/10000.
TableQ ==
    [order \in {2, 4, 5, 6} |->
        CASE order = 2 -> <<7071>>
          [] order = 4 -> <<5412, 13066>>
          [] order = 5 -> <<5000, 6180, 16180>>
          [] order = 6 -> <<5176, 7071, 19319>>]

\* The Q values a and b stand for the same cosine 1 / (2 Q), up to the six
\* units in the last place that rounding pi / order and the products of the
\* angle leaves on it.
CloseTo(a, b) == Abs(Quot(ONE * ONE, 2 * a) - Quot(ONE * ONE, 2 * b)) <= 6

RunsIIR1(self) ==
    self.process \in {"ProcessIIR1Only", "ProcessOddOrderCascade"}

\* C20: one step of the first-order stage on input x, in every lane, has
\* v1 = a1 (x - ic1eq), v2 = v1 + ic1eq, returns m0 x + m1 v2, leaves
\* v2 + v1 in ic1eq and leaves the coefficients as they were.
C20_IIR1Step ==
    [][(op' = "process" /\ RunsIIR1(band)) =>
          \A j \in 1 .. Lanes(variant) :
              LET c == band.iir1.coeffs
                  v1 == Mul(c.a1[j], x'[j] - band.iir1.ic1eq[j])
                  v2 == v1 + band.iir1.ic1eq[j]
              IN  /\ trace'[1].order = 1
                  /\ trace'[1].input = x'
                  /\ trace'[1].output[j] = Mul(c.m0[j], x'[j]) + Mul(c.m1[j], v2)
                  /\ band'.iir1.ic1eq[j] = v2 + v1
                  /\ band'.iir1.coeffs = c]_vars

\* A first-order stage with nonzero state has taken a step on a nonzero
\* sample and its state moved.
C20_Witness ==
    /\ op = "process" /\ RunsIIR1(band) /\ ncalls = 2
    /\ Len(trace) >= 1 /\ trace[1].order = 1
    /\ \A j \in 1 .. Lanes(variant) :
          /\ x[j] # 0
          /\ band.iir1.ic1eq[j] # 0
          /\ trace[1].output[j] # 0

\* The cutoff a stage constructor is to work from: the cutoff given, or
\* half the sample rate when the cutoff given lies above it.
ClampedCutoff(f0, fs) == IF f0 > Mul(fs, N0_5) THEN Mul(fs, N0_5) ELSE f0

\* The stage of the built set that the stage constructor call `call` gave.
BuiltStage(call) ==
    IF call.order = 1 THEN res.coeffs.iir1 ELSE res.coeffs.iir2[call.idx]

\* g of a stage built for the cutoff f0 by the stage constructor of `kind`:
\* tan(pi f0 / fs), divided (low shelf) or multiplied (high shelf) by
\* sqrt(a), a = 10^(gain / 20) first order, 10^(gain / 40) second order.
GFrom(kind, call, f0, fs) ==
    LET t == tan(Div(Mul(PI, f0), fs))
        a == powf10(Div(call.gain, IF call.order = 1 THEN Num(20) ELSE Num(40)))
    IN  CASE kind = "lowshelf"  -> Div(t, sqrt(a))
          [] kind = "highshelf" -> Mul(t, sqrt(a))
          [] OTHER              -> t

\* C14: every first-order and second-order stage constructor takes g from
\* min(f0, fs / 2): a cutoff up to fs / 2 is used as given, a cutoff above
\* it gives the coefficients of the cutoff fs / 2; and a stage constructor
\* has no error outcome: a builder fails only on its slope, whatever the
\* cutoff.
C14_NyquistClamp ==
    Built =>
        LET c == ClampedCutoff(inp.f0, inp.fs)
        IN  /\ res = Construct([inp EXCEPT !.f0 = c])
            /\ res.ok =>
                  \A n \in 1 .. Len(res.calls) :
                      /\ BuiltStage(res.calls[n]).g =
                            GFrom(inp.kind, res.calls[n], c, inp.fs)
                      /\ (inp.f0 <= Mul(inp.fs, N0_5)) =>
                            BuiltStage(res.calls[n]).g =
                                GFrom(inp.kind, res.calls[n], inp.f0, inp.fs)
            /\ ~res.ok =>
                  /\ HasSlope(inp.kind)
                  /\ (CastFails(inp.slope) \/ Order > 2 * MAX_POLE_COUNT + 1)

\* A set of a first-order and a second-order stage was built for a cutoff
\* above half the sample rate, where the tangent of the unclamped cutoff
\* is another value.
C14_Witness ==
    /\ Built /\ res.ok
    /\ inp.f0 > Mul(inp.fs, N0_5)
    /\ Len(res.calls) >= 2
    /\ \A n \in 1 .. Len(res.calls) :
          /\ BuiltStage(res.calls[n]).g =
                GFrom(inp.kind, res.calls[n], Mul(inp.fs, N0_5), inp.fs)
          /\ BuiltStage(res.calls[n]).g #
                GFrom(inp.kind, res.calls[n], inp.f0, inp.fs)

\* Lane j of a record of wide values, as a record of one-lane values.
Lane(rec, j) == [f \in DOMAIN rec |-> << rec[f][j] >>]

\* Lane j of a wide band, as a scalar band: the state and the coefficients
\* of every stage taken at lane j.
LaneBand(self, j) ==
    [iir1 |-> [ic1eq |-> << self.iir1.ic1eq[j] >>,
               coeffs |-> Lane(self.iir1.coeffs, j)],
     iir2 |-> [i \in StageIdx |->
                 [ic1eq |-> << self.iir2[i].ic1eq[j] >>,
                  ic2eq |-> << self.iir2[i].ic2eq[j] >>,
                  coeffs |-> Lane(self.iir2[i].coeffs, j)]],
     iir2_cascade_count |-> self.iir2_cascade_count,
     process |-> self.process]

StageIds(tr) == [n \in 1 .. Len(tr) |-> Factor(tr[n].order, tr[n].idx)]

\* A band with the routine and the cascade count of `self` and nothing
\* else of it: empty coefficients and zero state in every stage.
SameDispatch(self, W) ==
    [iir1 |-> IIR1_new(WideIIR1Coefficients_from(IIR1Coefficients_empty, W), W),
     iir2 |-> [i \in StageIdx |->
                 IIR2_new(WideIIR2Coefficients_from(IIR2Coefficients_empty, W), W)],
     iir2_cascade_count |-> self.iir2_cascade_count,
     process |-> self.process]

\* C16: the stages a process call runs, and how many, depend only on the
\* routine and the cascade count the last from or update installed: a band
\* with the same routine and count runs the same stage sequence whatever
\* its coefficients, its integrator state and the sample it is given.
C16_DataIndependentDispatch ==
    [][op' = "process" =>
          \A other \in {band, SameDispatch(band, Lanes(variant))} :
              \A s \in Samples(Lanes(variant)) \cup {Zero(Lanes(variant))} :
                  StageIds(FilterBand_process(other, s, Lanes(variant)).trace)
                      = StageIds(trace')]_vars

\* A cascade of three stages has run on a nonzero sample over nonzero
\* state.
C16_Witness ==
    /\ op = "process" /\ ncalls = 2 /\ panic = "none"
    /\ Len(trace) = 3
    /\ x # Zero(Lanes(variant))
    /\ trace[3].input # Zero(Lanes(variant))
    /\ band.iir1.ic1eq # Zero(Lanes(variant))

\* ------------------------------------------------------------------------
\* Two bands of one type, built from one set and given the same calls
\* ------------------------------------------------------------------------

TwinVariants == {"FilterBand"} \cup LinkwitzRileyVariants

AnyBand_from(v, coeffs) ==
    IF v \in LinkwitzRileyVariants
    THEN LinkwitzRileyBand_from(coeffs, Lanes(v))
    ELSE FilterBand_from(coeffs, Lanes(v))

AnyBand_update(v, self, coeffs) ==
    IF v \in LinkwitzRileyVariants
    THEN LinkwitzRileyBand_update(self, coeffs)
    ELSE FilterBand_update(self, coeffs)

\* AnyBand_process that adds to the sample the value the first band of the
\* pair returned last, as if the routines read a cell shared by all bands.
AnyBand_process_shared_cell(v, self, s) ==
    IF v \in LinkwitzRileyVariants
    THEN LinkwitzRileyBand_process(self, LAdd(s, y[1]), Lanes(v))
    ELSE FilterBand_process(self, LAdd(s, y[1]), Lanes(v))

\* (band.process)(&mut band, s)
AnyBand_process(v, self, s) ==
    IF v \in LinkwitzRileyVariants
    THEN LinkwitzRileyBand_process(self, s, Lanes(v))
    ELSE FilterBand_process(self, s, Lanes(v))

\* The coefficient sets given to a pair: one of each processing mode, and
\* a cascade that fills the iir2 array.
TwinInputs == {i \in BandInputs : i.kind \in {"lowpass", "highpass", "bell"}}

\* Both bands have received every call made so far.
InStep == op \in {"from", "build", "update", "process"}

\* In this specification band, y and trace are pairs: one entry per band.
TwinInit ==
    /\ variant \in TwinVariants
    /\ inp \in TwinInputs
    /\ res = Construct(inp)
    /\ band = [k \in 1 .. 2 |->
                  AnyBand_from(
                      variant,
                      WideFilterBandCoefficients_from(res.coeffs, Lanes(variant)))]
    /\ op = "from"
    /\ x = from_w(0, Lanes(variant))
    /\ y = << from_w(0, Lanes(variant)), from_w(0, Lanes(variant)) >>
    /\ trace = << << >>, << >> >>
    /\ panic = "none"
    /\ ncalls = 0

\* A new coefficient set is built for the next update of both bands.
TwinConfigure ==
    /\ panic = "none" /\ InStep /\ op # "build" /\ ncalls < MaxCalls
    /\ \E i \in TwinInputs : /\ inp' = i /\ res' = Construct(i)
    /\ op' = "build"
    /\ UNCHANGED <<variant, band, x, y, trace, panic, ncalls>>

TwinUpdateFirst ==
    /\ panic = "none" /\ InStep /\ res.ok /\ ncalls < MaxCalls
    /\ band' = [band EXCEPT ![1] =
                   AnyBand_update(
                       variant, band[1],
                       WideFilterBandCoefficients_from(res.coeffs, Lanes(variant)))]
    /\ op' = "update1"
    /\ UNCHANGED <<variant, inp, res, x, y, trace, panic, ncalls>>

TwinUpdateSecond ==
    /\ op = "update1"
    /\ band' = [band EXCEPT ![2] =
                   AnyBand_update(
                       variant, band[2],
                       WideFilterBandCoefficients_from(res.coeffs, Lanes(variant)))]
    /\ op' = "update"
    /\ ncalls' = ncalls + 1
    /\ UNCHANGED <<variant, inp, res, x, y, trace, panic>>

TwinProcessFirst ==
    /\ panic = "none" /\ InStep /\ op # "build" /\ ncalls < MaxCalls
    /\ \E s \in Samples(Lanes(variant)) :
          LET r == AnyBand_process(variant, band[1], s)
          IN  /\ x' = s
              /\ band' = [band EXCEPT ![1] = r.self]
              /\ y' = [y EXCEPT ![1] = r.y]
              /\ trace' = [trace EXCEPT ![1] = r.trace]
              /\ panic' = r.panic
    /\ op' = "process1"
    /\ UNCHANGED <<variant, inp, res, ncalls>>

TwinProcessSecond ==
    /\ panic = "none" /\ op = "process1"
    /\ LET r == AnyBand_process(variant, band[2], x)
       IN  /\ band' = [band EXCEPT ![2] = r.self]
           /\ y' = [y EXCEPT ![2] = r.y]
           /\ trace' = [trace EXCEPT ![2] = r.trace]
           /\ panic' = r.panic
    /\ op' = "process"
    /\ ncalls' = ncalls + 1
    /\ UNCHANGED <<variant, inp, res, x>>

TwinNext ==
    \/ TwinConfigure
    \/ TwinUpdateFirst
    \/ TwinUpdateSecond
    \/ TwinProcessFirst
    \/ TwinProcessSecond

SpecTwin == TwinInit /\ [][TwinNext]_vars

SameFilters(self) ==
    /\ self.filter1.iir1.coeffs = self.filter2.iir1.coeffs
    /\ \A i \in StageIdx :
          self.filter1.iir2[i].coeffs = self.filter2.iir2[i].coeffs
    /\ self.filter1.iir2_cascade_count = self.filter2.iir2_cascade_count
    /\ self.filter1.process = self.filter2.process
    /\ self.process = self.filter1.process

\* C13: after any from, update and process calls the two filters of a
\* Linkwitz-Riley band (scalar, 4-lane or 8-lane) hold the same
\* coefficients, count and mode and the band's routine is the one of that
\* mode; and a process call returns, and leaves in the two filters, what
\* two separate FilterBands give when the first is fed the sample and the
\* second the first one's output.
C13_TwoBandsInSeries ==
    /\ [](variant \in LinkwitzRileyVariants =>
              SameFilters(band[1]) /\ SameFilters(band[2]))
    /\ [][(variant \in LinkwitzRileyVariants) =>
              \A s \in Samples(Lanes(variant)) : \A k \in 1 .. 2 :
                  (x' = s /\ op' = (IF k = 1 THEN "process1" ELSE "process")) =>
                      \A r1 \in {FilterBand_process(band[k].filter1, s,
                                                      Lanes(variant))} :
                      \A r2 \in {FilterBand_process(band[k].filter2, r1.y,
                                                      Lanes(variant))} :
                          /\ y'[k] = r2.y
                          /\ band'[k].filter1 = r1.self
                          /\ band'[k].filter2 = r2.self
                          /\ band'[k].process = band[k].process
                          /\ trace'[k] = r1.trace \o r2.trace]_vars

\* A Linkwitz-Riley band updated to another set has processed a sample:
\* its two filters hold the same coefficients and different state.
C13_Witness ==
    /\ variant \in LinkwitzRileyVariants
    /\ op = "process" /\ ncalls = 2 /\ panic = "none"
    /\ SameFilters(band[1])
    /\ band[1].filter1 # band[1].filter2
    /\ band[1].filter1.iir1.coeffs =
          WideFilterBandCoefficients_from(res.coeffs, Lanes(variant)).iir1
    /\ y[1] # from_w(0, Lanes(variant))

\* ------------------------------------------------------------------------
\* Stereo band (stereo_filter_band.rs)
\* ------------------------------------------------------------------------
\* StereoFilterBand drives FilterBand through new, update by parameters,
\* mimic_band and process.  In this specification a FilterBand is the pair
\* of its parameters and of the band of coefficients and state; band is the
\* StereoFilterBand, x and y are the pairs (l, r) and (left output, right
\* output), and trace lists the sample pairs processed so far.

\* The parameters of a band that has not been updated: a bell of no gain.
DefaultParams(sample_rate) ==
    [kind |-> "bell", f0 |-> ONE, gain |-> 0, bw |-> ONE, slope |-> N2,
     fs |-> sample_rate]

\* new(sample_rate): the default coefficient set and zero state.
FilterBand_new(sample_rate) ==
    [params |-> DefaultParams(sample_rate),
     filter |-> FilterBand_from(
                    WideFilterBandCoefficients_from(
                        Construct(DefaultParams(sample_rate)).coeffs, 1),
                    1)]

\* update(kind, in_freq, in_gain, in_bw_value, slope, sample_rate): nothing
\* is done when no parameter differs; otherwise the set is recomputed and
\* installed, and the integrators are left as they are.
FilterBand_update_by_params(self, p) ==
    IF p = self.params
    THEN self
    ELSE [params |-> p,
          filter |-> FilterBand_update(
                         self.filter,
                         WideFilterBandCoefficients_from(Construct(p).coeffs, 1))]

\* mimic_band(&other): the coefficients of every stage, the cascade count
\* and the routine of `other`; the integrators of self.
FilterBand_mimic_band(self, other) ==
    [self EXCEPT
        !.filter =
            [iir1 |-> [self.filter.iir1 EXCEPT
                          !.coeffs = other.filter.iir1.coeffs],
             iir2 |-> [i \in StageIdx |->
                         [self.filter.iir2[i] EXCEPT
                             !.coeffs = other.filter.iir2[i].coeffs]],
             iir2_cascade_count |-> other.filter.iir2_cascade_count,
             process |-> other.filter.process]]

StereoFilterBand_new(sample_rate) ==
    [side \in {"left", "right"} |-> FilterBand_new(sample_rate)]

\* StereoFilterBand_update without the call of mimic_band.
StereoFilterBand_update_left_only(self, p) ==
    [self EXCEPT !.left = FilterBand_update_by_params(self.left, p)]

StereoFilterBand_update(self, p) ==
    LET left == FilterBand_update_by_params(self.left, p)
    IN  [left |-> left, right |-> FilterBand_mimic_band(self.right, left)]

\* [self.left.process(l), self.right.process(r)]
StereoFilterBand_process(self, l, r) ==
    LET a == FilterBand_process(self.left.filter, l, 1)
        b == FilterBand_process(self.right.filter, r, 1)
    IN  [self |-> [left |-> [self.left EXCEPT !.filter = a.self],
                   right |-> [self.right EXCEPT !.filter = b.self]],
         y |-> << a.y, b.y >>]

\* The parameter lists given to update: those of BandInputs whose order the
\* iir2 array holds.
StereoInputs ==
    {i \in BandInputs : CastToUsize(i.slope) <= 2 * MAX_POLE_COUNT + 1}

StereoInit ==
    /\ variant = "StereoFilterBand"
    /\ band = StereoFilterBand_new(SampleRate)
    /\ op = "new"
    /\ inp = DefaultParams(SampleRate)
    /\ res = Pending
    /\ x = << from_w(0, 1), from_w(0, 1) >>
    /\ y = << from_w(0, 1), from_w(0, 1) >>
    /\ trace = << >>
    /\ panic = "none"
    /\ ncalls = 0

StereoUpdate ==
    /\ ncalls < MaxCalls + 1
    /\ \E p \in StereoInputs :
          /\ inp' = p
          /\ band' = StereoFilterBand_update(band, p)
    /\ op' = "update"
    /\ ncalls' = ncalls + 1
    /\ UNCHANGED <<variant, res, x, y, trace, panic>>

StereoProcess ==
    /\ ncalls < MaxCalls + 1
    /\ \E l, r \in Samples(1) :
          LET o == StereoFilterBand_process(band, l, r)
          IN  /\ x' = << l, r >>
              /\ band' = o.self
              /\ y' = o.y
              /\ trace' = Append(trace, << l, r >>)
    /\ op' = "process"
    /\ ncalls' = ncalls + 1
    /\ UNCHANGED <<variant, inp, res, panic>>

StereoNext == StereoUpdate \/ StereoProcess

SpecStereo == StereoInit /\ [][StereoNext]_vars

\* Every process call so far was given the same sample left and right.
SameInputs == \A n \in 1 .. Len(trace) : trace[n][1] = trace[n][2]

\* The integrators of a band, stage by stage.
Integrators(self) ==
    << self.iir1.ic1eq,
       [i \in StageIdx |-> << self.iir2[i].ic1eq, self.iir2[i].ic2eq >>] >>

\* C11: a StereoFilterBand made by new and given any update and process
\* calls returns the same value left and right as long as every process
\* call had l = r; an update recomputes the left band only, and the right
\* band takes the left one's coefficients, cascade count and routine and
\* keeps its own integrators.
C11_StereoChannelsAgree ==
    /\ [](SameInputs =>
              /\ y[1] = y[2]
              /\ band.left.filter = band.right.filter)
    /\ [][(op' = "update") =>
              /\ band'.left = FilterBand_update_by_params(band.left, inp')
              /\ band'.right.filter.iir1.coeffs = band'.left.filter.iir1.coeffs
              /\ \A i \in StageIdx :
                    band'.right.filter.iir2[i].coeffs =
                        band'.left.filter.iir2[i].coeffs
              /\ band'.right.filter.iir2_cascade_count =
                    band'.left.filter.iir2_cascade_count
              /\ band'.right.filter.process = band'.left.filter.process
              /\ Integrators(band'.right.filter) = Integrators(band.right.filter)
              /\ Integrators(band'.left.filter) = Integrators(band.left.filter)]_vars

\* The band was updated away from its default and then given the same
\* nonzero sample left and right: both outputs are the same nonzero value.
C11_Witness ==
    /\ op = "process" /\ ncalls = 3
    /\ SameInputs
    /\ band.left.params # DefaultParams(SampleRate)
    /\ band.left.filter.iir1.coeffs # FilterBand_new(SampleRate).filter.iir1.coeffs
    /\ y[1] = y[2]
    /\ y[1] # from_w(0, 1)
    /\ Integrators(band.right.filter) # Integrators(FilterBand_new(SampleRate).filter)

\* C21: one step of a second-order stage on input x, in every lane, has
\* v3 = x - ic2eq, v1 = a1 ic1eq + a2 v3, v2 = ic2eq + a2 ic1eq + a3 v3,
\* returns m0 x + m1 v1 + m2 v2, leaves 2 v1 - ic1eq in ic1eq and
\* 2 v2 - ic2eq in ic2eq, both taken from the state before the step, and
\* leaves the coefficients as they were.
C21_IIR2Step ==
    [][(op' = "process") =>
          \A n \in 1 .. Len(trace') :
              (trace'[n].order = 2) =>
                  \A j \in 1 .. Lanes(variant) :
                      LET old == band.iir2[trace'[n].idx]
                          new == band'.iir2[trace'[n].idx]
                          c == old.coeffs
                          u == trace'[n].input[j]
                          v3 == u - old.ic2eq[j]
                          v1 == Mul(c.a1[j], old.ic1eq[j]) + Mul(c.a2[j], v3)
                          v2 == old.ic2eq[j] + Mul(c.a2[j], old.ic1eq[j])
                                    + Mul(c.a3[j], v3)
                      IN  /\ trace'[n].output[j] =
                                Mul(c.m0[j], u) + Mul(c.m1[j], v1)
                                    + Mul(c.m2[j], v2)
                          /\ new.ic1eq[j] = Mul(N2, v1) - old.ic1eq[j]
                          /\ new.ic2eq[j] = Mul(N2, v2) - old.ic2eq[j]
                          /\ new.coeffs = c]_vars

\* A second-order stage holding nonzero ic1eq and ic2eq has taken a second
\* step on a nonzero input.
C21_Witness ==
    /\ op = "process" /\ ncalls = 2 /\ panic = "none"
    /\ Len(trace) >= 1
    /\ trace[Len(trace)].order = 2
    /\ \A j \in 1 .. Lanes(variant) :
          /\ trace[Len(trace)].input[j] # 0
          /\ trace[Len(trace)].output[j] # 0
          /\ band.iir2[trace[Len(trace)].idx].ic1eq[j] # 0
          /\ band.iir2[trace[Len(trace)].idx].ic2eq[j] # 0

C25_ConsistentSet ==
    (Built /\ res.ok) =>
        LET c == res.coeffs
            run == CASE c.process = "ProcessIIR1Only" -> {}
                     [] c.process = "ProcessIIR2Only" -> {0}
                     [] OTHER -> 0 .. (c.iir2_cascade_count - 1)
        IN  /\ c.process \in ProcessType
            /\ (c.process = "ProcessIIR1Only") =>
                  (c.iir1_enabled /\ c.iir2_cascade_count = 0)
            /\ (c.process = "ProcessIIR2Only") =>
                  (~c.iir1_enabled /\ c.iir2_cascade_count = 0)
            /\ (c.process = "ProcessEvenOrderCascade") => ~c.iir1_enabled
            /\ (c.process = "ProcessOddOrderCascade") =>
                  (c.iir1_enabled /\ c.iir2_cascade_count >= 1)
            /\ \A i \in StageIdx \ run : c.iir2[i] = IIR2Coefficients_empty

\* A bell set was built: the one stage its routine runs is not empty and
\* the 31 stages it does not run are.
C25_Witness ==
    /\ Built /\ res.ok
    /\ inp.kind = "bell"
    /\ res.coeffs.process = "ProcessIIR2Only"
    /\ res.coeffs.iir2[0] # IIR2Coefficients_empty
    /\ \A i \in StageIdx \ {0} : res.coeffs.iir2[i] = IIR2Coefficients_empty

\* C28: the gain has no influence where it is declared unused: the notch
\* and bandpass constructors return the same set for every gain, and the
\* lowpass, highpass, bandpass, notch and allpass stage constructors return
\* the same coefficients for every db_gain.
C28_GainUnused ==
    Built =>
        /\ (inp.kind \in {"notch", "bandpass"}) =>
              \A g \in Gains : Construct([inp EXCEPT !.gain = g]) = res
        /\ \A g \in Gains \ {0} :
              LET q == bw_to_q(inp.bw, inp.f0, inp.fs)
              IN  /\ IIR2Coefficients_lowpass(inp.f0, q, g, inp.fs)
                        = IIR2Coefficients_lowpass(inp.f0, q, 0, inp.fs)
                  /\ IIR2Coefficients_highpass(inp.f0, q, g, inp.fs)
                        = IIR2Coefficients_highpass(inp.f0, q, 0, inp.fs)
                  /\ IIR2Coefficients_bandpass(inp.f0, q, g, inp.fs)
                        = IIR2Coefficients_bandpass(inp.f0, q, 0, inp.fs)
                  /\ IIR2Coefficients_notch(inp.f0, q, g, inp.fs)
                        = IIR2Coefficients_notch(inp.f0, q, 0, inp.fs)
                  /\ IIR2Coefficients_allpass(inp.f0, q, g, inp.fs)
                        = IIR2Coefficients_allpass(inp.f0, q, 0, inp.fs)

\* A notch set was built with a gain of 6 dB: it is the set a gain of
\* -6 dB gives, although a bell of the same cutoff and bandwidth differs
\* between the two gains.
C28_Witness ==
    /\ Built /\ res.ok
    /\ inp.kind = "notch" /\ inp.gain = Num(6)
    /\ res.coeffs = Construct([inp EXCEPT !.gain = -Num(6)]).coeffs
    /\ res.coeffs.iir2[0] # IIR2Coefficients_empty
    /\ Construct([inp EXCEPT !.kind = "bell"]).coeffs
          # Construct([inp EXCEPT !.kind = "bell", !.gain = -Num(6)]).coeffs

C24_ProcessFrame ==
    [][(op' = "process") =>
          LET run == CASE band.process = "ProcessIIR1Only" -> {}
                       [] band.process = "ProcessIIR2Only" -> {0}
                       [] OTHER -> 0 .. (band.iir2_cascade_count - 1)
          IN  /\ DOMAIN band' = DOMAIN band
              /\ band'.process = band.process
              /\ band'.iir2_cascade_count = band.iir2_cascade_count
              /\ band'.iir1.coeffs = band.iir1.coeffs
              /\ DOMAIN band'.iir2 = StageIdx
              /\ \A i \in StageIdx :
                    /\ band'.iir2[i].coeffs = band.iir2[i].coeffs
                    /\ (i \notin run) => band'.iir2[i] = band.iir2[i]
                    /\ (band'.iir2[i] # band.iir2[i]) =>
                          \E n \in 1 .. Len(trace') :
                              trace'[n].order = 2 /\ trace'[n].idx = i
              /\ (band.process \in {"ProcessEvenOrderCascade",
                                    "ProcessIIR2Only"}) =>
                    band'.iir1 = band.iir1
              /\ UNCHANGED <<variant, inp, res>>]_vars

\* An order-4 band has processed two samples: the two stages it runs hold
\* nonzero state, every other second-order stage and the first-order stage
\* hold zero state.
C24_Witness ==
    /\ op = "process" /\ ncalls = 2 /\ panic = "none"
    /\ band.process = "ProcessEvenOrderCascade"
    /\ band.iir2_cascade_count = 2
    /\ \A i \in StageIdx :
          \A j \in 1 .. Lanes(variant) :
              IF i < 2
              THEN band.iir2[i].ic1eq[j] # 0 /\ band.iir2[i].ic2eq[j] # 0
              ELSE band.iir2[i].ic1eq[j] = 0 /\ band.iir2[i].ic2eq[j] = 0
    /\ band.iir1.ic1eq = Zero(Lanes(variant))

\* C23: a band fresh from `from(c)` holds the coefficients a band holds
\* after update(c): second-order stage i holds c.iir2[i] for every
\* i < c.iir2_cascade_count, update(c) leaves the fresh band as it is, and
\* the fresh band and the band after update(c) return the same value for
\* the same first sample.
C23_FromAgreesWithUpdate ==
    (op = "from") =>
        LET W == Lanes(variant)
            c == WideFilterBandCoefficients_from(res.coeffs, W)
            updated == FilterBand_update(band, c)
        IN  /\ \A i \in StageIdx :
                  (i < c.iir2_cascade_count) => band.iir2[i].coeffs = c.iir2[i]
            /\ band.iir1.coeffs = c.iir1
            /\ band = updated
            /\ \A s \in Samples(W) :
                  FilterBand_process(band, s, W).y
                      = FilterBand_process(updated, s, W).y

\* ------------------------------------------------------------------------
\* A band fed silence: from, then update calls and process calls on the
\* zero sample
\* ------------------------------------------------------------------------

\* One zero sample through the band.
ProcessSilence ==
    /\ panic = "none"
    /\ res.ok
    /\ op # "build"
    /\ ncalls < MaxCalls + 1
    /\ \A r \in {FilterBand_process(band, Zero(Lanes(variant)),
                                    Lanes(variant))} :
          /\ x' = Zero(Lanes(variant))
          /\ band' = r.self
          /\ y' = r.y
          /\ trace' = r.trace
          /\ panic' = r.panic
    /\ op' = "process"
    /\ ncalls' = ncalls + 1
    /\ UNCHANGED <<variant, inp, res>>

NextSilence == Configure \/ Update \/ ProcessSilence

SpecSilence == Init /\ [][NextSilence]_vars

C22_SquareMatchesTwoPasses ==
    (Built /\ res.ok) =>
        LET single == get_bode_sample(res.coeffs)
            squared == LinkwitzRileyCoefficients_get_bode_sample(
                           [coeffs |-> res.coeffs])
            ran == LinkwitzRileyBand_process(
                       LinkwitzRileyBand_from(
                           WideFilterBandCoefficients_from(res.coeffs, 1), 1),
                       << ONE >>, 1).trace
            Count(seq, f) ==
                Cardinality({n \in 1 .. Len(seq) :
                                seq[n].order = f.order /\ seq[n].idx = f.idx})
        IN  \A f \in {Factor(1, 0)} \cup {Factor(2, i) : i \in StageIdx} :
                /\ Count(single, f) <= 1
                /\ Count(squared, f) = 2 * Count(single, f)
                /\ Count(squared, f) = Count(ran, f)

====
